---- MODULE Spec2Model ----
(***************************************************************************)
(* vigil: persistent remote tmux sessions over SSH.                        *)
(*                                                                         *)
(* The repository holds the logic twice: the monolithic src/main.rs and    *)
(* the split modules cli.rs / tmux.rs / ssh.rs / ui.rs / util.rs.  The     *)
(* variable `copy` says which of the two an invocation runs.  The split    *)
(* modules have no entry point among the sources; their functions are      *)
(* driven through the mode sequence of main.rs `main`.                     *)
(*                                                                         *)
(* Strings are sequences of one-character strings, so that starts_with,    *)
(* contains, trim and replace are computed as the code computes them.      *)
(***************************************************************************)
EXTENDS Integers, Sequences, FiniteSets, TLC

VARIABLES
    copy,       \* "main" (src/main.rs) or "modules" (cli.rs, tmux.rs, ssh.rs, ui.rs)
    pc,         \* position of the invocation
    ssh_args,   \* Cli.ssh_args: the trailing token vector
    list,       \* Cli.list: bool
    attach,     \* Cli.attach: Option<Option<String>>
    kill,       \* Cli.kill: Option<Option<String>>
    i,          \* the hoister's scan index (0-based, as in the code)
    origin,     \* history: for each token of ssh_args its 1-based index in the raw vector (0: inserted)
    raw,        \* history: what the command-line parser produced, before hoisting
    run,        \* history: 1 for the first hoist, 2 for a hoist of the cleaned output
    first,      \* history: the result of the first hoist
    tmux_args,  \* Cli.tmux_args
    sessions,   \* the Session List a discovery query returned
    target,     \* the resolved Session Identifier
    spawned,    \* history: every external process spawned, in order
    stderr,     \* diagnostics emitted, in order
    stdout,     \* lines printed to the primary output
    reads,      \* history: every line read from the terminal, with the number of processes spawned before it
    result      \* None while running, Some(Ok) or Some(Err(..)) once main returned

hvars == <<ssh_args, list, attach, kill, i, origin>>
ovars == <<tmux_args, sessions, target, spawned, stderr, stdout, reads, result>>
vars == <<copy, pc, ssh_args, list, attach, kill, i, origin, raw, run, first,
          tmux_args, sessions, target, spawned, stderr, stdout, reads, result>>

----------------------------------------------------------------------------
(* Option<T>: None is the empty sequence, Some(x) the one-element sequence. *)

None == <<>>
Some(x) == <<x>>
IsNone(o) == o = <<>>
IsSome(o) == o # <<>>
Unwrap(o) == o[1]

----------------------------------------------------------------------------
(* String literals of the code. *)

FlagList == <<"-", "-", "l", "i", "s", "t">>
FlagAttach == <<"-", "-", "a", "t", "t", "a", "c", "h">>
FlagSelect == <<"-", "-", "s", "e", "l", "e", "c", "t">>
FlagKill == <<"-", "-", "k", "i", "l", "l">>
TtyFlag == <<"-", "t">>
TtyFlag2 == <<"-", "t", "t">>
Destination == <<"u", "s", "e", "r", "@", "h", "o", "s", "t">>
HostPort == <<"h", ":", "1">>
NameWork == <<"w", "o", "r", "k">>
NameDev == <<"d", "e", "v">>
\* An argument of two lines, as a shell passes $'a\nb'
NameTwoLines == <<"a", "\n", "b">>

ReservedFlags == {FlagList, FlagAttach, FlagSelect, FlagKill}

\* The tokens a trailing vector is drawn from: the reserved flags, both TTY
\* flags, a destination (contains '@'), a host:port (contains ':') and a
\* plain word.
Tokens == ReservedFlags \cup {TtyFlag, TtyFlag2, Destination, HostPort, NameWork}

\* The tokens of a whole invocation: --select is --attach under another name
\* and host:port is treated as the destination is, so an invocation draws
\* its vector from the rest, and from an argument that holds a newline.
ArgTokens == (Tokens \ {FlagSelect, HostPort}) \cup {NameTwoLines}

\* The names the command-line parser may already have bound to --attach/--kill.
ParsedNames == {NameDev}

MaxLen == 3
MaxArgs == 2

SeqsUpTo(S, n) == UNION {[1..k -> S] : k \in 0..n}

----------------------------------------------------------------------------
(* str::starts_with(char), str::contains(char) *)

starts_with(s, c) == Len(s) > 0 /\ s[1] = c
contains(s, c) == \E k \in 1..Len(s) : s[k] = c

\* Mutant: nothing is removed
remove_nothing(v, idx) == v

\* Vec::remove(i) with the code's 0-based index
remove(v, idx) == [k \in 1..(Len(v) - 1) |-> IF k <= idx THEN v[k] ELSE v[k + 1]]

\* Vec::insert(0, x)
insert0(v, x) == <<x>> \o v

----------------------------------------------------------------------------
(* The Argument Hoister: main.rs parse_args, repeated verbatim as          *)
(* cli.rs Cli::parse_with_fallback.                                        *)

\* tok == "--list" && !parsed.list
is_list_flag(tok, l) == tok = FlagList /\ ~l

\* (tok == "--attach" || tok == "--select") && parsed.attach.is_none()
is_attach_flag(tok, a) == (tok = FlagAttach \/ tok = FlagSelect) /\ IsNone(a)

\* tok == "--kill" && parsed.kill.is_none()
is_kill_flag(tok, k) == tok = FlagKill /\ IsNone(k)

\* !next.starts_with('-') && !next.contains('@') && !next.contains(':')
name_like(next) ==
    ~starts_with(next, "-") /\ ~contains(next, "@") /\ ~contains(next, ":")

\* Mutant: the bound check compares idx + 1, so a NAME in the last place is missed
takes_name_off_by_one(v, idx) == idx + 1 < Len(v) /\ name_like(v[idx + 1])

\* After the flag at idx is removed: does an optional NAME follow at idx?
takes_name(v, idx) == idx < Len(v) /\ name_like(v[idx + 1])

\* Mutant: the NAME is removed but not recorded
optional_name_forgotten(v, idx) == Some(None)

\* The field recorded for a flag whose removal left the vector v
optional_name(v, idx) ==
    IF takes_name(v, idx) THEN Some(Some(v[idx + 1])) ELSE Some(None)

\* The vector after the optional NAME (if any) is removed too
without_name(v, idx) == IF takes_name(v, idx) THEN remove(v, idx) ELSE v

\* Mutant: only -tt counts as a TTY flag
has_tty_only_tt(v) == \E k \in 1..Len(v) : v[k] = TtyFlag2

\* parsed.ssh_args.iter().any(|a| a == "-t" || a == "-tt")
has_tty(v) == \E k \in 1..Len(v) : v[k] = TtyFlag \/ v[k] = TtyFlag2

\* Mutant: the flag is pushed at the end instead of inserted at the front
ensure_tty_pushed(v) == IF has_tty(v) THEN v ELSE Append(v, TtyFlag)

\* if !any(..) { parsed.ssh_args.insert(0, "-t") }
ensure_tty(v) == IF has_tty(v) THEN v ELSE insert0(v, TtyFlag)

\* Mutant: the list flag is recorded but left in the vector
HoistListKeepsToken ==
    /\ pc = "scan"
    /\ i < Len(ssh_args)
    /\ is_list_flag(ssh_args[i + 1], list)
    /\ list' = TRUE
    /\ i' = i + 1
    /\ UNCHANGED <<copy, pc, ssh_args, origin, attach, kill, raw, run, first, ovars>>

HoistList ==
    /\ pc = "scan"
    /\ i < Len(ssh_args)
    /\ is_list_flag(ssh_args[i + 1], list)
    /\ list' = TRUE
    /\ ssh_args' = remove(ssh_args, i)
    /\ origin' = remove(origin, i)
    /\ UNCHANGED <<copy, pc, attach, kill, i, raw, run, first, ovars>>

HoistAttach ==
    /\ pc = "scan"
    /\ i < Len(ssh_args)
    /\ ~is_list_flag(ssh_args[i + 1], list)
    /\ is_attach_flag(ssh_args[i + 1], attach)
    /\ LET rest == remove(ssh_args, i)
           orest == remove(origin, i)
       IN /\ attach' = optional_name(rest, i)
          /\ ssh_args' = without_name(rest, i)
          /\ origin' = IF takes_name(rest, i) THEN remove(orest, i) ELSE orest
    /\ UNCHANGED <<copy, pc, list, kill, i, raw, run, first, ovars>>

HoistKill ==
    /\ pc = "scan"
    /\ i < Len(ssh_args)
    /\ ~is_list_flag(ssh_args[i + 1], list)
    /\ ~is_attach_flag(ssh_args[i + 1], attach)
    /\ is_kill_flag(ssh_args[i + 1], kill)
    /\ LET rest == remove(ssh_args, i)
           orest == remove(origin, i)
       IN /\ kill' = optional_name(rest, i)
          /\ ssh_args' = without_name(rest, i)
          /\ origin' = IF takes_name(rest, i) THEN remove(orest, i) ELSE orest
    /\ UNCHANGED <<copy, pc, list, attach, i, raw, run, first, ovars>>

Advance ==
    /\ pc = "scan"
    /\ i < Len(ssh_args)
    /\ ~is_list_flag(ssh_args[i + 1], list)
    /\ ~is_attach_flag(ssh_args[i + 1], attach)
    /\ ~is_kill_flag(ssh_args[i + 1], kill)
    /\ i' = i + 1
    /\ UNCHANGED <<copy, pc, ssh_args, list, attach, kill, origin, raw, run, first, ovars>>

\* The loop exits and the TTY flag is ensured; parse_args returns Ok(parsed).
EnsureTty ==
    /\ pc = "scan"
    /\ ~(i < Len(ssh_args))
    /\ ssh_args' = ensure_tty(ssh_args)
    /\ origin' = IF has_tty(ssh_args) THEN origin ELSE insert0(origin, 0)
    /\ pc' = "hoisted"
    /\ UNCHANGED <<copy, list, attach, kill, i, raw, run, first, ovars>>

Hoist == HoistList \/ HoistAttach \/ HoistKill \/ Advance \/ EnsureTty

\* What a hoist has produced
Parsed == [ssh_args |-> ssh_args, list |-> list, attach |-> attach, kill |-> kill]

\* The hoist algorithm is run again on its own output.
Rehoist ==
    /\ pc = "hoisted"
    /\ run = 1
    /\ run' = 2
    /\ first' = Some(Parsed)
    /\ i' = 0
    /\ pc' = "scan"
    /\ UNCHANGED <<copy, ssh_args, list, attach, kill, origin, raw, ovars>>

\* What Cli::parse() may hand to the hoister: any trailing vector, with any
\* of the three fields already bound by options given before it.
ParsedFields == {None, Some(None)} \cup {Some(Some(n)) : n \in ParsedNames}

InitCli(toks, n, extras) ==
    /\ ssh_args \in SeqsUpTo(toks, n)
    /\ list \in BOOLEAN
    /\ attach \in ParsedFields
    /\ kill \in ParsedFields
    /\ i = 0
    /\ origin = [k \in 1..Len(ssh_args) |-> k]
    /\ raw = Parsed
    /\ run = 1
    /\ first = None
    /\ pc = "scan"
    /\ tmux_args \in extras
    /\ sessions = <<>>
    /\ target = None
    /\ spawned = <<>>
    /\ stderr = <<>>
    /\ stdout = <<>>
    /\ reads = <<>>
    /\ result = None

InitHoist == copy \in {"main", "modules"} /\ InitCli(Tokens, MaxLen, {<<>>})

NextHoist == Hoist \/ Rehoist

SpecHoist == InitHoist /\ [][NextHoist]_vars

----------------------------------------------------------------------------
(* Strings of the remote commands and of the environment. *)

\* --tmux default_value
TmuxBin == <<"t", "m", "u", "x">>
\* --session default_value
SessionStem == <<"d", "e", "f", "a", "u", "l", "t">>
\* get_local_username(): $USER
LocalUser == <<"a", "l", "i", "c", "e">>
ListVerb == <<" ", "l", "i", "s", "t", "-", "s", "e", "s", "s", "i", "o", "n", "s", " ", "-", "F", " ">>
KillVerb == <<" ", "k", "i", "l", "l", "-", "s", "e", "s", "s", "i", "o", "n", " ", "-", "t", " ">>
SessionFormat == <<"#", "{", "s", "e", "s", "s", "i", "o", "n", "_", "n", "a", "m", "e", "}">>
NewSession == <<"n", "e", "w", "-", "s", "e", "s", "s", "i", "o", "n">>
OptA == <<"-", "A">>
OptS == <<"-", "s">>
OptD == <<"-", "d">>
OptX == <<"-", "x">>
Quote == "'"
\* the replacement of one single quote: '\''
QuoteEscaped == <<"'", "\\", "'", "'">>
Whitespace == {" ", "\t", "\r", "\n"}
Digits == <<"0", "1", "2", "3", "4", "5", "6", "7", "8", "9">>

\* s.replace('\'', "'\\''")
RECURSIVE replace_quotes(_)
replace_quotes(s) ==
    IF Len(s) = 0 THEN <<>>
    ELSE (IF Head(s) = Quote THEN QuoteEscaped ELSE <<Head(s)>>) \o replace_quotes(Tail(s))

\* Mutant: the string is wrapped, its quotes are not replaced
shell_escape_wrap_only(s) == <<Quote>> \o s \o <<Quote>>

\* format!("'{}'", escaped)
shell_escape(s) == <<Quote>> \o replace_quotes(s) \o <<Quote>>

\* Mutant: the session stem alone
default_name_stem_only == SessionStem

\* format!("{}_{}", parsed.session, local_user)
default_name == SessionStem \o <<"_">> \o LocalUser

\* str::trim
RECURSIVE trim_start(_)
trim_start(s) ==
    IF Len(s) > 0 /\ Head(s) \in Whitespace THEN trim_start(Tail(s)) ELSE s

RECURSIVE trim_end(_)
trim_end(s) ==
    IF Len(s) > 0 /\ s[Len(s)] \in Whitespace THEN trim_end(SubSeq(s, 1, Len(s) - 1)) ELSE s

trim(s) == trim_end(trim_start(s))

\* str::lines: split at '\n', a trailing '\r' of a line dropped, no final empty line
RECURSIVE split_lines(_, _)
split_lines(s, cur) ==
    IF Len(s) = 0 THEN (IF Len(cur) = 0 THEN <<>> ELSE <<cur>>)
    ELSE IF Head(s) = "\n"
         THEN <<IF Len(cur) > 0 /\ cur[Len(cur)] = "\r"
                THEN SubSeq(cur, 1, Len(cur) - 1) ELSE cur>> \o split_lines(Tail(s), <<>>)
         ELSE split_lines(Tail(s), Append(cur, Head(s)))

lines(s) == split_lines(s, <<>>)

\* stdout.lines().map(trim).filter(!is_empty).collect()
RECURSIVE trimmed_nonempty(_)
trimmed_nonempty(ls) ==
    IF Len(ls) = 0 THEN <<>>
    ELSE (IF Len(trim(Head(ls))) = 0 THEN <<>> ELSE <<trim(Head(ls))>>)
         \o trimmed_nonempty(Tail(ls))

session_names(out) == trimmed_nonempty(lines(out))

\* str::contains(&str)
contains_str(s, sub) ==
    \E k \in 0..(Len(s) - Len(sub)) : SubSeq(s, k + 1, k + Len(sub)) = sub

\* Result<T>
Ok(v) == [ok |-> TRUE, val |-> v, err |-> ""]
Err(e) == [ok |-> FALSE, val |-> <<>>, err |-> e]

----------------------------------------------------------------------------
(* The external collaborators: a spawned ssh process and the line input.   *)

ExitCodes == {0, 1, 127}

\* What the remote may write to standard output
Stdouts == {<<>>, <<"w", "o", "r", "k", "\n">>, <<"a", "\n", " ", "b", "\r", "\n", "\n", "c">>}

\* An outcome of Command::output(): the spawn may fail; otherwise an exit
\* status and the captured standard output.
CaptureOutcomes ==
    {[spawn |-> FALSE, code |-> 0, out |-> <<>>]}
    \cup {[spawn |-> TRUE, code |-> c, out |-> o] : c \in ExitCodes, o \in Stdouts}

\* An outcome of Command::status()
StatusOutcomes ==
    {[spawn |-> FALSE, code |-> 0, out |-> <<>>]}
    \cup {[spawn |-> TRUE, code |-> c, out |-> <<>>] : c \in ExitCodes}

\* An outcome of read_line: a failure, or the line read (none at end of
\* input)
Lines ==
    {<<>>, <<"\n">>, <<"2", "\n">>, <<"5", "\n">>, <<"x", "\n">>, <<"0", "\n">>,
     <<"3", "\n">>, <<"+", "1", "\n">>, <<" ", "1", "\r", "\n">>}

ReadOutcomes ==
    {[ok |-> FALSE, line |-> <<>>]} \cup {[ok |-> TRUE, line |-> l] : l \in Lines}

\* The values of --tmuxargs: absent, two flags, an unpaired quote
TmuxArgsChoices == {<<>>, OptD \o <<" ">> \o OptX, <<Quote>>}

\* A line read from the terminal: the outcome of read_line and the number of
\* processes spawned before it
Read(rd, n) == [ok |-> rd.ok, line |-> rd.line, after |-> n]

\* Diagnostics, by their text; arg is the name a message embeds
Note(m) == [msg |-> m, arg |-> <<>>]
NoteOf(m, a) == [msg |-> m, arg |-> a]
HintTmuxNotFound == "tmux not found on remote host: install tmux"
HintCommandNotFound == "Remote reported 'command not found': tmux may not be installed"
InstallHints == {HintTmuxNotFound, HintCommandNotFound}

\* .filter(|a| a != "-t" && a != "-tt")
strip_tty(v) == SelectSeq(v, LAMBDA a : a # TtyFlag /\ a # TtyFlag2)

\* The record of a spawned process: the operation, its outbound argument
\* vector, the base vector it was built from, the session it names, and how
\* the process ended
Spawn(op, argv, base, name, o) ==
    [op |-> op, argv |-> argv, base |-> base, name |-> name, outcome |-> o]

----------------------------------------------------------------------------
(* main.rs: list_remote_sessions, kill_remote_session, the attach of main  *)

\* format!("{} list-sessions -F {}", tmux_bin, shell_escape("#{session_name}"))
list_command == TmuxBin \o ListVerb \o shell_escape(SessionFormat)

\* format!("{} kill-session -t {}", tmux_bin, shell_escape(target))
kill_command(name) == TmuxBin \o KillVerb \o shell_escape(name)

main_list_args(base) == Append(strip_tty(base), list_command)

main_list_result(o) ==
    IF ~o.spawn THEN Err("failed to execute ssh for listing sessions")
    ELSE IF o.code # 0 /\ o.code = 127 THEN Err("remote tmux not found (exit 127)")
    ELSE Ok(session_names(o.out))

main_list_notes(o) ==
    IF o.spawn /\ o.code = 127 THEN <<Note(HintTmuxNotFound)>> ELSE <<>>

main_kill_args(base, name) == Append(strip_tty(base), kill_command(name))

main_kill_result(o) ==
    IF ~o.spawn THEN Err("failed to execute ssh for killing session")
    ELSE IF o.code # 0
         THEN (IF o.code = 127 THEN Err("remote tmux not found (exit 127)")
               ELSE Err("failed to kill remote session"))
    ELSE Ok(<<>>)

main_kill_notes(o) ==
    IF o.spawn /\ o.code = 127 THEN <<Note(HintTmuxNotFound)>> ELSE <<>>

\* str::split_whitespace
RECURSIVE split_words(_, _)
split_words(s, cur) ==
    IF Len(s) = 0 THEN (IF Len(cur) = 0 THEN <<>> ELSE <<cur>>)
    ELSE IF Head(s) \in Whitespace
         THEN (IF Len(cur) = 0 THEN <<>> ELSE <<cur>>) \o split_words(Tail(s), <<>>)
         ELSE split_words(Tail(s), Append(cur, Head(s)))

\* shell_words::split on the strings of TmuxArgsChoices: an unpaired quote is
\* its ParseError, unquoted text is split at whitespace
shell_split(s) ==
    IF contains(s, Quote) THEN Err("missing closing quote") ELSE Ok(split_words(s, <<>>))

new_session(name) == <<TmuxBin, NewSession, OptA, OptS, name>>

\* main.rs: the tmux argv, or the error of a --tmuxargs that does not lex
main_tmux_cmd(name, extra) ==
    IF Len(trim(extra)) = 0 THEN Ok(new_session(name))
    ELSE IF shell_split(extra).ok THEN Ok(new_session(name) \o shell_split(extra).val)
    ELSE Err("failed parsing --tmuxargs")

\* ssh_args.extend(tmux_cmd)
main_attach_args(base, cmd) == base \o cmd

main_attach_result(o) ==
    IF ~o.spawn THEN Err("failed to execute ssh")
    ELSE IF o.code # 0 THEN Err("remote command exited with status")
    ELSE Ok(<<>>)

main_attach_notes(o) ==
    IF o.spawn /\ o.code = 127 THEN <<Note(HintCommandNotFound)>> ELSE <<>>

----------------------------------------------------------------------------
(* The split modules: ssh.rs, tmux.rs *)

\* ssh.rs exec_remote_capture: the exit status is not looked at
capture_args(base, command) == Append(strip_tty(base), command)

CaptureSpawnError == "failed to execute ssh for remote command"
\* format!("{}", e): the outermost context of the error
display(e) == IF e = CaptureSpawnError THEN <<"f", "a", "i", "l", "e", "d", " ", "t", "o", " ", "e", "x", "e", "c", "u", "t", "e", " ", "s", "s", "h", " ", "f", "o", "r", " ", "r", "e", "m", "o", "t", "e", " ", "c", "o", "m", "m", "a", "n", "d">> ELSE <<>>

exec_remote_capture(o) == IF ~o.spawn THEN Err(CaptureSpawnError) ELSE Ok(o.out)

\* tmux.rs list_remote_sessions
tmux_list_result(o) ==
    LET r == exec_remote_capture(o) IN
    IF r.ok THEN Ok(session_names(r.val))
    ELSE IF contains_str(display(r.err), <<"1", "2", "7">>) \/ contains_str(display(r.err), <<"n", "o", "t", " ", "f", "o", "u", "n", "d">>)
         THEN Err("remote tmux not found")
         ELSE Ok(<<>>)

tmux_list_notes(o) ==
    LET r == exec_remote_capture(o) IN
    IF ~r.ok /\ (contains_str(display(r.err), <<"1", "2", "7">>) \/ contains_str(display(r.err), <<"n", "o", "t", " ", "f", "o", "u", "n", "d">>))
    THEN <<Note(HintTmuxNotFound)>> ELSE <<>>

\* ssh.rs exec_remote_command: config.ssh_args.clone(), then push(command)
command_args(base, command) == Append(base, command)

exec_remote_command(o) ==
    IF ~o.spawn THEN Err("failed to execute ssh")
    ELSE IF o.code # 0 THEN Err("remote command exited with status")
    ELSE Ok(<<>>)

exec_remote_command_notes(o) ==
    IF o.spawn /\ o.code = 127 THEN <<Note(HintCommandNotFound)>> ELSE <<>>

\* tmux.rs build_session_command: a --tmuxargs that does not lex is left out
build_session_command(name, extra) ==
    IF Len(trim(extra)) = 0 THEN new_session(name)
    ELSE IF shell_split(extra).ok THEN new_session(name) \o shell_split(extra).val
    ELSE new_session(name)

\* tmux.rs build_attach_command
build_attach_command(base, name, extra) ==
    ensure_tty(base) \o build_session_command(name, extra)

\* tmux.rs attach_session
attach_session_result(o) ==
    IF ~o.spawn THEN Err("io error")
    ELSE IF o.code # 0 THEN Err("remote command exited with status")
    ELSE Ok(<<>>)

attach_session_notes(o) ==
    IF o.spawn /\ o.code = 127 THEN <<Note(HintTmuxNotFound)>> ELSE <<>>

----------------------------------------------------------------------------
(* Interactive selection: main.rs and ui.rs prompt_user_to_select_session  *)

digit_value(c) == CHOOSE d \in 0..9 : Digits[d + 1] = c
all_digits(s) == \A k \in 1..Len(s) : \E d \in 1..10 : Digits[d] = s[k]

RECURSIVE decimal(_, _)
decimal(s, acc) ==
    IF Len(s) = 0 THEN acc ELSE decimal(Tail(s), 10 * acc + digit_value(Head(s)))

\* input.parse::<usize>(): an optional '+', then one or more digits
parse_usize(s) ==
    LET body == IF Len(s) > 0 /\ Head(s) = "+" THEN Tail(s) ELSE s IN
    IF Len(body) = 0 \/ ~all_digits(body) THEN None ELSE Some(decimal(body, 0))

\* Mutant: an empty input is parsed like any other
selected_index_parse_only(input) ==
    IF IsSome(parse_usize(input)) THEN Unwrap(parse_usize(input)) ELSE 0

\* if input.is_empty() { 1 } else { input.parse::<usize>().unwrap_or(0) }
selected_index(input) ==
    IF Len(input) = 0 THEN 1
    ELSE IF IsSome(parse_usize(input)) THEN Unwrap(parse_usize(input)) ELSE 0

prompt_user_to_select_session(names, rd) ==
    IF ~rd.ok THEN Err("failed to read selection")
    ELSE LET idx == selected_index(trim(rd.line)) IN
         IF idx = 0 \/ idx > Len(names) THEN Err("invalid selection")
         ELSE Ok(names[idx])

----------------------------------------------------------------------------
(* The Session Orchestrator: main.rs main *)

\* Mutant: the kill branch is tested before the list branch
selected_mode_kill_first(l, k) == IF IsSome(k) THEN "kill" ELSE IF l THEN "list" ELSE "attach"

\* if parsed.list .. ; if let Some(kill_opt) = &parsed.kill .. ; otherwise attach
selected_mode(l, k) == IF l THEN "list" ELSE IF IsSome(k) THEN "kill" ELSE "attach"

list_args(base) ==
    IF copy = "main" THEN main_list_args(base) ELSE capture_args(base, list_command)
list_result(o) == IF copy = "main" THEN main_list_result(o) ELSE tmux_list_result(o)
list_notes(o) == IF copy = "main" THEN main_list_notes(o) ELSE tmux_list_notes(o)
kill_args(base, name) ==
    IF copy = "main" THEN main_kill_args(base, name)
    ELSE command_args(base, kill_command(name))
kill_result(o) == IF copy = "main" THEN main_kill_result(o) ELSE exec_remote_command(o)
kill_notes(o) == IF copy = "main" THEN main_kill_notes(o) ELSE exec_remote_command_notes(o)
attach_cmd(name, extra) ==
    IF copy = "main" THEN main_tmux_cmd(name, extra) ELSE Ok(build_session_command(name, extra))
attach_args(base, name, extra) ==
    IF copy = "main" THEN main_attach_args(base, main_tmux_cmd(name, extra).val)
    ELSE build_attach_command(base, name, extra)
attach_result(o) == IF copy = "main" THEN main_attach_result(o) ELSE attach_session_result(o)
attach_notes(o) == IF copy = "main" THEN main_attach_notes(o) ELSE attach_session_notes(o)

\* fn main() -> Result<()>: the exit status of the process is 0 for Ok(())
\* and 1 for any Err, whatever status the remote process reported
exit_code(r) == IF r.ok THEN 0 ELSE 1

\* main returns
Return(r) == result' = Some(r) /\ pc' = "done"

\* ensure_binaries_present()?, get_local_username(), infer_ssh_prog()?
CheckSsh ==
    /\ pc = "hoisted"
    /\ run = 1
    /\ \E present \in BOOLEAN :
         IF present THEN pc' = "ready" /\ result' = result
         ELSE Return(Err("ssh not found in PATH"))
    /\ UNCHANGED <<copy, hvars, raw, run, first, tmux_args, sessions, target, spawned,
                   stderr, stdout, reads>>

\* The static priority of the three modes
Dispatch ==
    /\ pc = "ready"
    /\ pc' = selected_mode(list, kill)
    /\ UNCHANGED <<copy, hvars, raw, run, first, ovars>>

\* List mode: print sessions and exit
RunList ==
    /\ pc = "list"
    /\ \E o \in CaptureOutcomes :
         LET r == list_result(o) IN
         /\ spawned' = Append(spawned, Spawn("list", list_args(ssh_args), ssh_args, <<>>, o))
         /\ stderr' = stderr \o list_notes(o)
                \o (IF r.ok /\ Len(r.val) = 0
                    THEN <<Note("No tmux sessions found remotely.")>> ELSE <<>>)
         /\ stdout' = IF r.ok THEN stdout \o r.val ELSE stdout
         /\ sessions' = IF r.ok THEN r.val ELSE sessions
         /\ Return(IF r.ok THEN Ok(<<>>) ELSE Err(r.err))
    /\ UNCHANGED <<copy, hvars, raw, run, first, tmux_args, target, reads>>

\* Kill mode, Some(name)
KillNamed ==
    /\ pc = "kill"
    /\ IsSome(Unwrap(kill))
    /\ target' = Some(Unwrap(Unwrap(kill)))
    /\ pc' = "kill_exec"
    /\ UNCHANGED <<copy, hvars, raw, run, first, tmux_args, sessions, spawned, stderr,
                   stdout, result, reads>>

\* Mutant: an empty session list is prompted over like any other
KillDiscoverPromptsEmpty ==
    /\ pc = "kill"
    /\ IsNone(Unwrap(kill))
    /\ \E o \in CaptureOutcomes :
         LET r == list_result(o) IN
         /\ spawned' = Append(spawned, Spawn("list", list_args(ssh_args), ssh_args, <<>>, o))
         /\ IF ~r.ok
            THEN /\ stderr' = stderr \o list_notes(o)
                 /\ sessions' = sessions
                 /\ Return(Err(r.err))
            ELSE /\ stderr' = stderr \o list_notes(o)
                 /\ sessions' = r.val
                 /\ pc' = "kill_prompt"
                 /\ result' = result
    /\ UNCHANGED <<copy, hvars, raw, run, first, tmux_args, target, stdout, reads>>

\* Kill mode, None: list the sessions
KillDiscover ==
    /\ pc = "kill"
    /\ IsNone(Unwrap(kill))
    /\ \E o \in CaptureOutcomes :
         LET r == list_result(o) IN
         /\ spawned' = Append(spawned, Spawn("list", list_args(ssh_args), ssh_args, <<>>, o))
         /\ IF ~r.ok
            THEN /\ stderr' = stderr \o list_notes(o)
                 /\ sessions' = sessions
                 /\ Return(Err(r.err))
            ELSE IF Len(r.val) = 0
            THEN /\ stderr' = stderr \o list_notes(o)
                        \o <<Note("No tmux sessions found remotely to kill.")>>
                 /\ sessions' = r.val
                 /\ Return(Ok(<<>>))
            ELSE /\ stderr' = stderr \o list_notes(o)
                 /\ sessions' = r.val
                 /\ pc' = "kill_prompt"
                 /\ result' = result
    /\ UNCHANGED <<copy, hvars, raw, run, first, tmux_args, target, stdout, reads>>

\* prompt_user_to_select_session("kill", &sessions)?
KillPrompt ==
    /\ pc = "kill_prompt"
    /\ \E rd \in ReadOutcomes :
         LET r == prompt_user_to_select_session(sessions, rd) IN
         /\ stderr' = Append(stderr, Note("Select a session to kill:"))
         /\ reads' = Append(reads, Read(rd, Len(spawned)))
         /\ IF r.ok THEN target' = Some(r.val) /\ pc' = "kill_exec" /\ result' = result
            ELSE target' = target /\ Return(Err(r.err))
    /\ UNCHANGED <<copy, hvars, raw, run, first, tmux_args, sessions, spawned, stdout>>

\* kill_remote_session(..)?; eprintln!("[vigil] Killed session '{}'.", target)
KillExec ==
    /\ pc = "kill_exec"
    /\ \E o \in StatusOutcomes :
         LET r == kill_result(o)
             name == Unwrap(target) IN
         /\ spawned' = Append(spawned, Spawn("kill", kill_args(ssh_args, name), ssh_args, name, o))
         /\ stderr' = stderr \o kill_notes(o)
                \o (IF r.ok THEN <<NoteOf("Killed session", name)>> ELSE <<>>)
         /\ Return(IF r.ok THEN Ok(<<>>) ELSE Err(r.err))
    /\ UNCHANGED <<copy, hvars, raw, run, first, tmux_args, sessions, target, stdout, reads>>

\* Attach with an explicit name
AttachNamed ==
    /\ pc = "attach"
    /\ IsSome(attach)
    /\ IsSome(Unwrap(attach))
    /\ target' = Some(Unwrap(Unwrap(attach)))
    /\ pc' = "attach_exec"
    /\ UNCHANGED <<copy, hvars, raw, run, first, tmux_args, sessions, spawned, stderr,
                   stdout, result, reads>>

\* Mutant: the default attach runs a discovery query first
AttachDefaultQueries ==
    /\ pc = "attach"
    /\ IsNone(attach)
    /\ target' = None
    /\ pc' = "attach_exec"
    /\ \E o \in CaptureOutcomes :
         spawned' = Append(spawned, Spawn("list", list_args(ssh_args), ssh_args, <<>>, o))
    /\ UNCHANGED <<copy, hvars, raw, run, first, tmux_args, sessions, stderr,
                   stdout, result, reads>>

\* The attach flag was never given
AttachDefault ==
    /\ pc = "attach"
    /\ IsNone(attach)
    /\ target' = None
    /\ pc' = "attach_exec"
    /\ UNCHANGED <<copy, hvars, raw, run, first, tmux_args, sessions, spawned, stderr,
                   stdout, result, reads>>

\* Attach without a name: list the sessions
AttachDiscover ==
    /\ pc = "attach"
    /\ IsSome(attach)
    /\ IsNone(Unwrap(attach))
    /\ \E o \in CaptureOutcomes :
         LET r == list_result(o) IN
         /\ spawned' = Append(spawned, Spawn("list", list_args(ssh_args), ssh_args, <<>>, o))
         /\ IF ~r.ok
            THEN /\ stderr' = stderr \o list_notes(o)
                 /\ sessions' = sessions
                 /\ Return(Err(r.err))
            ELSE IF Len(r.val) = 0
            THEN /\ stderr' = stderr \o list_notes(o)
                        \o <<NoteOf("No tmux sessions found remotely; will create/attach to",
                                    default_name)>>
                 /\ sessions' = r.val
                 /\ pc' = "attach_exec"
                 /\ result' = result
            ELSE /\ stderr' = stderr \o list_notes(o)
                 /\ sessions' = r.val
                 /\ pc' = "attach_prompt"
                 /\ result' = result
    /\ target' = None
    /\ UNCHANGED <<copy, hvars, raw, run, first, tmux_args, stdout, reads>>

\* prompt_user_to_select_session("attach", &sessions)?
AttachPrompt ==
    /\ pc = "attach_prompt"
    /\ \E rd \in ReadOutcomes :
         LET r == prompt_user_to_select_session(sessions, rd) IN
         /\ stderr' = Append(stderr, Note("Select a session to attach:"))
         /\ reads' = Append(reads, Read(rd, Len(spawned)))
         /\ IF r.ok THEN target' = Some(r.val) /\ pc' = "attach_exec" /\ result' = result
            ELSE target' = target /\ Return(Err(r.err))
    /\ UNCHANGED <<copy, hvars, raw, run, first, tmux_args, sessions, spawned, stdout>>

\* Mutant: a failed attach/create command is issued a second time
AttachExecRetries ==
    /\ pc = "attach_exec"
    /\ LET final_session == IF IsSome(target) THEN Unwrap(target) ELSE default_name IN
       IF ~attach_cmd(final_session, tmux_args).ok
       THEN /\ Return(Err(attach_cmd(final_session, tmux_args).err))
            /\ UNCHANGED <<spawned, stderr, reads>>
       ELSE \E o \in StatusOutcomes :
              /\ spawned' =
                     LET sp == Spawn("attach", attach_args(ssh_args, final_session, tmux_args),
                                     ssh_args, final_session, o)
                     IN IF attach_result(o).ok THEN Append(spawned, sp)
                        ELSE Append(Append(spawned, sp), sp)
              /\ stderr' = stderr \o attach_notes(o)
              /\ Return(attach_result(o))
    /\ UNCHANGED <<copy, hvars, raw, run, first, tmux_args, sessions, target, stdout, reads>>

\* The final session name, the tmux command, the ssh process and its status
AttachExec ==
    /\ pc = "attach_exec"
    /\ LET final_session == IF IsSome(target) THEN Unwrap(target) ELSE default_name IN
       IF ~attach_cmd(final_session, tmux_args).ok
       THEN /\ Return(Err(attach_cmd(final_session, tmux_args).err))
            /\ UNCHANGED <<spawned, stderr, reads>>
       ELSE \E o \in StatusOutcomes :
              /\ spawned' = Append(spawned,
                     Spawn("attach", attach_args(ssh_args, final_session, tmux_args),
                           ssh_args, final_session, o))
              /\ stderr' = stderr \o attach_notes(o)
              /\ Return(attach_result(o))
    /\ UNCHANGED <<copy, hvars, raw, run, first, tmux_args, sessions, target, stdout, reads>>

Init == copy \in {"main", "modules"} /\ InitCli(ArgTokens, MaxArgs, TmuxArgsChoices)

Next ==
    \/ Hoist
    \/ CheckSsh
    \/ Dispatch
    \/ RunList
    \/ KillNamed
    \/ KillDiscover
    \/ KillPrompt
    \/ KillExec
    \/ AttachNamed
    \/ AttachDefault
    \/ AttachDiscover
    \/ AttachPrompt
    \/ AttachExec

Spec == Init /\ [][Next]_vars

----------------------------------------------------------------------------
(* shell_escape on its own: any short string over letters, quotes,          *)
(* backslashes and blanks is escaped.                                       *)

EscapeChars == {"a", "'", "\\", " "}
MaxStr == 3

InitEscape ==
    /\ copy \in {"main", "modules"}
    /\ pc = "escape"
    /\ target \in {Some(s) : s \in SeqsUpTo(EscapeChars, MaxStr)}
    /\ ssh_args = <<>> /\ list = FALSE /\ attach = None /\ kill = None
    /\ i = 0 /\ origin = <<>> /\ raw = Parsed /\ run = 1 /\ first = None
    /\ tmux_args = <<>> /\ sessions = <<>> /\ spawned = <<>>
    /\ stderr = <<>> /\ stdout = <<>> /\ reads = <<>> /\ result = None

\* shell_escape(target)
Escape ==
    /\ pc = "escape"
    /\ stdout' = <<shell_escape(Unwrap(target))>>
    /\ pc' = "escaped"
    /\ UNCHANGED <<copy, hvars, raw, run, first, tmux_args, sessions, target, spawned,
                   stderr, reads, result>>

NextEscape == Escape

SpecEscape == InitEscape /\ [][NextEscape]_vars

----------------------------------------------------------------------------
(* Properties *)

IsTty(tok) == tok = TtyFlag \/ tok = TtyFlag2
Hoisted == pc # "scan"
FirstHoistDone == pc # "scan" /\ run = 1
Last(q) == q[Len(q)]
Positions(v, S) == {k \in 1..Len(v) : v[k] \in S}
Survives(p) == \E k \in 1..Len(origin) : origin[k] = p

\* C1: an invocation runs exactly one of List, Kill and Attach, chosen by
\* fixed priority from the hoisted fields: List if list is set, otherwise
\* Kill if kill is set, otherwise Attach; the chosen operation is never left
\* for another one, List mode issues no kill and no attach/create command,
\* Kill mode no attach/create command, Attach mode no kill command.
C1_Expected == IF list THEN "list" ELSE IF kill # None THEN "kill" ELSE "attach"

C1_Operation(p) ==
    CASE p = "list" -> "list"
      [] p \in {"kill", "kill_prompt", "kill_exec"} -> "kill"
      [] p \in {"attach", "attach_prompt", "attach_exec"} -> "attach"
      [] OTHER -> "none"

C1_Commands(m) ==
    CASE m = "list" -> {"list"}
      [] m = "kill" -> {"list", "kill"}
      [] OTHER -> {"list", "attach"}

C1_ModePriority ==
    [][/\ pc = "ready" => pc' = C1_Expected
       /\ C1_Operation(pc) # "none" =>
            (C1_Operation(pc) = C1_Expected /\ pc' \in {"done"} \cup
                {q \in {"list", "kill", "kill_prompt", "kill_exec", "attach",
                        "attach_prompt", "attach_exec"} : C1_Operation(q) = C1_Expected})
       /\ \A k \in 1..Len(spawned') : spawned'[k].op \in C1_Commands(C1_Expected)]_vars

\* All three fields set, list among them by hoisting: only the list query ran.
C1_Witness ==
    /\ pc = "done"
    /\ list /\ ~raw.list /\ kill # None /\ attach # None
    /\ Len(spawned) = 1 /\ spawned[1].op = "list"

\* C2: after the hoister finishes, the cleaned vector contains none of
\* --list, --attach, --select, --kill.
C2_NoReservedFlagRemains ==
    Hoisted => \A k \in 1..Len(ssh_args) : ssh_args[k] \notin ReservedFlags

\* C3: hoisting the cleaned vector of a first hoist again yields the same
\* cleaned vector and changes none of the list/attach/kill fields.
C3_HoistIdempotent == (pc = "hoisted" /\ run = 2) => Parsed = Unwrap(first)

\* A second hoist that met a left-over reserved flag, after a first hoist
\* that removed one and inserted -t.
C3_Witness ==
    /\ pc = "hoisted" /\ run = 2
    /\ \E k \in 1..Len(ssh_args) : ssh_args[k] \in ReservedFlags
    /\ Len(raw.ssh_args) > Len(ssh_args) - 1
    /\ origin[1] = 0

\* C4: a name that does not start with '-' and contains no '@' and no ':'
C4_PlainName(n) ==
    /\ ~(Len(n) > 0 /\ n[1] = "-")
    /\ \A k \in 1..Len(n) : n[k] \notin {"@", ":"}

\* The raw vector holds at p a flag of F, immediately followed by a plain name
C4_PairAt(p, F) ==
    /\ p + 1 <= Len(raw.ssh_args)
    /\ raw.ssh_args[p] \in F
    /\ C4_PlainName(raw.ssh_args[p + 1])

\* The field is unset when the scan reaches p
C4_UnsetAt(p, F, field) ==
    field = None /\ \A q \in 1..(p - 1) : raw.ssh_args[q] \notin F

C4_Recorded(p, field) ==
    /\ field = Some(Some(raw.ssh_args[p + 1]))
    /\ ~Survives(p) /\ ~Survives(p + 1)

C5_ListOnce ==
    Cardinality(Positions(raw.ssh_args, {FlagList})) = 1 /\ ~raw.list

\* The input with that one token removed, prefixed by -t when no -t/-tt remains
C5_Cleaned ==
    LET rest == SelectSeq(raw.ssh_args, LAMBDA t : t # FlagList) IN
    IF \E k \in 1..Len(rest) : IsTty(rest[k]) THEN rest ELSE <<TtyFlag>> \o rest

\* Only the List operation runs: one list query and nothing else
C5_OnlyList ==
    /\ pc \in {"hoisted", "ready", "list", "done"}
    /\ Len(spawned) <= 1
    /\ \A k \in 1..Len(spawned) : spawned[k].op = "list"
    /\ (pc = "done" /\ Unwrap(result).err # "ssh not found in PATH") => Len(spawned) = 1

\* No attach/select/kill flag is hoisted: each such token's mode was already
\* bound by the parser
C5_NothingElseHoisted ==
    /\ raw.attach # None \/ Positions(raw.ssh_args, {FlagAttach, FlagSelect}) = {}
    /\ raw.kill # None \/ Positions(raw.ssh_args, {FlagKill}) = {}

\* C5 as claimed: for every vector holding --list exactly once, at any index,
\* list mode is set, the cleaned vector is the input with that one token
\* removed (prefixed by -t when no -t/-tt remains), and only List runs.
C5_ListAnywhere ==
    (FirstHoistDone /\ C5_ListOnce) =>
        (list /\ ssh_args = C5_Cleaned /\ C5_OnlyList)

\* C5 amended: the same, for the vectors from which no attach/select/kill
\* flag is hoisted as well.
C5_ListAnywhereAlone ==
    (FirstHoistDone /\ C5_ListOnce /\ C5_NothingElseHoisted) =>
        (list /\ ssh_args = C5_Cleaned /\ C5_OnlyList)

\* [user@host, --list], with kill bound by the parser: [-t, user@host], List ran
C5_Witness ==
    /\ pc = "done"
    /\ raw.ssh_args = <<Destination, FlagList>> /\ ~raw.list /\ raw.kill # None
    /\ ssh_args = <<TtyFlag, Destination>>
    /\ Len(spawned) = 1 /\ spawned[1].op = "list"

\* The errors a discovery query returns
QueryErrors ==
    {"failed to execute ssh for listing sessions", "remote tmux not found (exit 127)",
     "remote tmux not found", CaptureSpawnError}

HasNote(m) == \E k \in 1..Len(stderr) : stderr[k].msg = m

\* The discovery query that has just returned
JustQueried == Len(spawned) > 0 /\ Last(spawned).op = "list"

\* C6: a discovery query whose remote process exits with a non-zero status
\* other than 127 raises no error and returns an empty session list,
\* whatever the remote wrote to standard output.
C6_NonZeroIsEmptyList ==
    (JustQueried /\ Last(spawned).outcome.spawn /\ Last(spawned).outcome.code \notin {0, 127})
        => /\ sessions = <<>>
           /\ result = None \/ Unwrap(result).err \notin QueryErrors

\* C7: when the remote process of the discovery query of List or Kill exits
\* with 127, the invocation continues on the empty-list path: the
\* no-sessions notice and a successful end, no fatal error.
C7_Exit127IsEmptyList ==
    (JustQueried /\ C1_Expected \in {"list", "kill"}
        /\ Last(spawned).outcome.spawn /\ Last(spawned).outcome.code = 127)
        => /\ pc = "done" /\ Unwrap(result).ok
           /\ sessions = <<>>
           /\ IF C1_Expected = "list" THEN HasNote("No tmux sessions found remotely.")
              ELSE HasNote("No tmux sessions found remotely to kill.")

\* The error a kill command ends in for a non-zero status other than 127
GenericKillError == kill_result([spawn |-> TRUE, code |-> 1, out |-> <<>>]).err

\* C8: a kill command whose remote process exits with 127 ends in a fatal
\* error reported with the installation hint, an error other than the
\* generic kill failure of any other non-zero status; in neither case is
\* the 'Killed session' confirmation emitted.
C8_Kill127Distinct ==
    (Len(spawned) > 0 /\ Last(spawned).op = "kill"
        /\ Last(spawned).outcome.spawn /\ Last(spawned).outcome.code # 0)
        => /\ pc = "done" /\ ~Unwrap(result).ok
           /\ ~HasNote("Killed session")
           /\ IF Last(spawned).outcome.code = 127
              THEN /\ \E h \in InstallHints : HasNote(h)
                   /\ Unwrap(result).err # GenericKillError
              ELSE Unwrap(result).err = GenericKillError

\* C9: the outbound vector of every list query and every kill command holds
\* no -t and no -tt, and is the base vector without those tokens, in order,
\* followed by exactly one token, the whole remote command string.
C9_Command(sp) ==
    IF sp.op = "list" THEN TmuxBin \o ListVerb \o <<Quote>> \o SessionFormat \o <<Quote>>
    ELSE TmuxBin \o KillVerb \o shell_escape(sp.name)

C9_NoTtyForListAndKill ==
    \A k \in 1..Len(spawned) :
        spawned[k].op \in {"list", "kill"} =>
            /\ \A j \in 1..Len(spawned[k].argv) : ~IsTty(spawned[k].argv[j])
            /\ spawned[k].argv =
                  SelectSeq(spawned[k].base, LAMBDA t : ~IsTty(t)) \o <<C9_Command(spawned[k])>>

\* C10: after hoisting the cleaned vector holds -t or -tt; -t is inserted at
\* index 0 exactly when none remained after the scan, otherwise the vector
\* is left as scanned; and the outbound vector of every attach/create
\* command holds a TTY flag before the tmux command tokens.
C10_TtyBeforeCommand(argv) ==
    \E m \in 2..Len(argv) :
        /\ m + 1 <= Len(argv)
        /\ argv[m] = TmuxBin /\ argv[m + 1] = NewSession
        /\ \A q \in 1..(m - 1) : ~(argv[q] = TmuxBin /\ argv[q + 1] = NewSession)
        /\ \E j \in 1..(m - 1) : IsTty(argv[j])

C10_TtyEnsured ==
    [][/\ (pc = "scan" /\ pc' = "hoisted") =>
            ssh_args' = IF \E k \in 1..Len(ssh_args) : IsTty(ssh_args[k])
                        THEN ssh_args ELSE <<TtyFlag>> \o ssh_args
       /\ pc' # "scan" => \E k \in 1..Len(ssh_args') : IsTty(ssh_args'[k])
       /\ \A k \in 1..Len(spawned') :
            spawned'[k].op = "attach" => C10_TtyBeforeCommand(spawned'[k].argv)]_vars

\* An attach/create command whose -t was inserted by the hoister
C10_Witness ==
    /\ pc = "done"
    /\ Len(spawned) > 0 /\ Last(spawned).op = "attach"
    /\ origin[1] = 0 /\ Len(raw.ssh_args) > 0
    /\ \A k \in 1..Len(raw.ssh_args) : ~IsTty(raw.ssh_args[k])

\* The positions of the discovery queries among the spawned processes
Queries == {k \in 1..Len(spawned) : spawned[k].op = "list"}

\* C11: in Attach mode no discovery query is issued when attach carries an
\* explicit name or the attach flag was never given; when attach was given
\* without a name the query is issued exactly once, before the prompt and
\* before the attach/create command.
C11_DiscoveryOnlyUnnamed ==
    (Hoisted /\ C1_Expected = "attach") =>
        /\ (attach = None \/ Unwrap(attach) # None) => Queries = {}
        /\ attach = Some(None) =>
              /\ Cardinality(Queries) <= 1
              /\ pc \in {"attach_prompt", "attach_exec"} => Queries = {1}
              /\ \A k \in 1..Len(spawned) :
                    spawned[k].op = "attach" => (Queries = {1} /\ k = 2)

\* Attach without a name: one query, then the attach/create command
C11_Witness ==
    /\ pc = "done"
    /\ attach = Some(None)
    /\ Len(spawned) = 2 /\ spawned[1].op = "list" /\ spawned[2].op = "attach"

\* The token that follows new-session -A -s in an outbound vector
C12_SessionOf(argv) ==
    LET m == CHOOSE m \in 1..Len(argv) :
                 /\ m + 4 <= Len(argv)
                 /\ argv[m] = TmuxBin /\ argv[m + 1] = NewSession
                 /\ argv[m + 2] = OptA /\ argv[m + 3] = OptS
    IN argv[m + 4]

C12_DefaultAlice == <<"d", "e", "f", "a", "u", "l", "t", "_", "a", "l", "i", "c", "e">>

\* C12: the session named after new-session -A -s of an attach/create
\* command is the explicit name of attach; default_alice (the stem, an
\* underscore, the local user) when the attach flag was never given or when
\* it was given without a name and the discovery returned no session; and
\* otherwise the discovered name chosen at the prompt.
C12_SessionName ==
    \A k \in 1..Len(spawned) :
        spawned[k].op = "attach" =>
            /\ \E m \in 1..(Len(spawned[k].argv) - 4) :
                  SubSeq(spawned[k].argv, m, m + 3) = <<TmuxBin, NewSession, OptA, OptS>>
            /\ C12_SessionOf(spawned[k].argv) =
                  IF attach = None THEN C12_DefaultAlice
                  ELSE IF Unwrap(attach) # None THEN Unwrap(Unwrap(attach))
                  ELSE IF sessions = <<>> THEN C12_DefaultAlice
                  ELSE prompt_user_to_select_session(sessions,
                           [ok |-> Last(reads).ok, line |-> Last(reads).line]).val
            /\ (attach = Some(None) /\ sessions # <<>>) =>
                  /\ Len(reads) = 1 /\ reads[1].ok
                  /\ \E j \in 1..Len(sessions) : C12_SessionOf(spawned[k].argv) = sessions[j]

\* The second of three discovered sessions was chosen and attached to
C12_Witness ==
    /\ pc = "done"
    /\ attach = Some(None)
    /\ sessions = <<<<"a">>, <<"b">>, <<"c">>>>
    /\ Len(reads) = 1 /\ reads[1].line = <<"2", "\n">>
    /\ Len(spawned) = 2 /\ spawned[2].op = "attach"
    /\ C12_SessionOf(spawned[2].argv) = <<"b">>

\* C13: Kill mode without a name whose discovery returns no session emits the
\* notice and ends successfully, with no prompt and no kill-session
\* command; a kill-session command is issued only for the explicit name of
\* kill or for the name of a successful selection among the discovered
\* sessions.
C13_EmptyKillStops ==
    /\ (C1_Expected = "kill" /\ JustQueried /\ list_result(Last(spawned).outcome).ok
            /\ list_result(Last(spawned).outcome).val = <<>>)
          => /\ pc = "done" /\ Unwrap(result).ok
             /\ HasNote("No tmux sessions found remotely to kill.")
             /\ reads = <<>>
             /\ ~HasNote("Select a session to kill:")
    /\ \A k \in 1..Len(spawned) :
          spawned[k].op = "kill" =>
              \/ kill = Some(Some(spawned[k].name)) /\ k = 1 /\ reads = <<>>
              \/ /\ kill = Some(None)
                 /\ k = 2 /\ spawned[1].op = "list"
                 /\ list_result(spawned[1].outcome).ok
                 /\ Len(reads) = 1 /\ reads[1].ok
                 /\ \E j \in 1..Len(sessions) : sessions[j] = spawned[k].name

\* Kill without a name, nothing to kill
C13_Witness ==
    /\ pc = "done"
    /\ kill = Some(None) /\ ~list
    /\ Len(spawned) = 1 /\ spawned[1].op = "list" /\ spawned[1].outcome.spawn
    /\ spawned[1].outcome.code = 0
    /\ sessions = <<>>
    /\ Unwrap(result).ok

\* What each line of Lines selects: 1 for an empty trimmed input, the number
\* it spells, 0 when it spells none
C14_Index(line) ==
    CASE line = <<>> -> 1
      [] line = <<"\n">> -> 1
      [] line = <<"2", "\n">> -> 2
      [] line = <<"5", "\n">> -> 5
      [] line = <<"x", "\n">> -> 0
      [] line = <<"0", "\n">> -> 0
      [] line = <<"3", "\n">> -> 3
      [] line = <<"+", "1", "\n">> -> 1
      [] line = <<" ", "1", "\r", "\n">> -> 1

\* C14: the selection over a non-empty session list of length n, for the
\* trimmed line read: an empty input returns the first session, an integer
\* k with 1 <= k <= n the k-th session, and an input that is no integer,
\* is 0 or exceeds n fails with 'invalid selection', no session is
\* returned and no command follows.
C14_Selection ==
    (Len(reads) > 0 /\ reads[1].ok) =>
        LET k == C14_Index(reads[1].line)
            n == Len(sessions)
        IN /\ n >= 1
           /\ IF 1 <= k /\ k <= n
              THEN /\ target = Some(sessions[k])
                   /\ result = None \/ Unwrap(result).err # "invalid selection"
              ELSE /\ pc = "done" /\ ~Unwrap(result).ok
                   /\ Unwrap(result).err = "invalid selection"
                   /\ target = None
                   /\ \A j \in 1..Len(spawned) : spawned[j].op = "list"

\* Three sessions and the input 5
C14_Witness ==
    /\ pc = "done"
    /\ sessions = <<<<"a">>, <<"b">>, <<"c">>>>
    /\ Len(reads) = 1 /\ reads[1].ok /\ reads[1].line = <<"5", "\n">>
    /\ Unwrap(result).err = "invalid selection"

\* A shell token decoder that knows single quotes: text between two quotes is
\* literal, a backslash outside quotes makes the next character literal,
\* and an open quote or a bare blank is no token (None)
RECURSIVE C15_Decode(_, _, _)
C15_Decode(t, quoted, acc) ==
    IF Len(t) = 0 THEN (IF quoted THEN None ELSE Some(acc))
    ELSE IF quoted
         THEN (IF Head(t) = Quote THEN C15_Decode(Tail(t), FALSE, acc)
               ELSE C15_Decode(Tail(t), TRUE, Append(acc, Head(t))))
    ELSE IF Head(t) = Quote THEN C15_Decode(Tail(t), TRUE, acc)
    ELSE IF Head(t) = "\\"
         THEN (IF Len(t) = 1 THEN None
               ELSE C15_Decode(Tail(Tail(t)), FALSE, Append(acc, Head(Tail(t)))))
    ELSE IF Head(t) \in Whitespace THEN None
    ELSE C15_Decode(Tail(t), FALSE, Append(acc, Head(t)))

\* s with every quote replaced by the four characters quote, backslash,
\* quote, quote
RECURSIVE C15_Replaced(_, _)
C15_Replaced(s, k) ==
    IF k > Len(s) THEN <<>>
    ELSE (IF s[k] = "'" THEN <<"'", "\\", "'", "'">> ELSE <<s[k]>>) \o C15_Replaced(s, k + 1)

\* C15: for every string s, the empty one and those with quotes included,
\* shell_escape(s) is s between two single quotes with each quote of s
\* replaced by quote-backslash-quote-quote, and decoding it as a shell token
\* gives back s.
C15_EscapeRoundTrip ==
    pc = "escaped" =>
        /\ stdout[1] = <<"'">> \o C15_Replaced(Unwrap(target), 1) \o <<"'">>
        /\ C15_Decode(stdout[1], FALSE, <<>>) = Some(Unwrap(target))

\* A string with two quotes and a backslash has been escaped
C15_Witness ==
    /\ pc = "escaped"
    /\ Unwrap(target) = <<"'", "\\", "'">>
    /\ Len(stdout[1]) = 11

\* The tokens a value of --tmuxargs lexes to, none when it does not lex
C16_Lexed(extra) ==
    IF extra = <<"-", "d", " ", "-", "x">> THEN <<<<"-", "d">>, <<"-", "x">>>> ELSE <<>>

\* The tmux command tokens of an outbound attach/create vector
C16_Command(argv) ==
    LET m == CHOOSE m \in 1..Len(argv) :
                 /\ m < Len(argv) /\ argv[m] = TmuxBin /\ argv[m + 1] = NewSession
                 /\ \A q \in 1..(m - 1) : ~(argv[q] = TmuxBin /\ argv[q + 1] = NewSession)
    IN SubSeq(argv, m, Len(argv))

\* C16: building the session-create command never fails: a --tmuxargs that
\* is not blank and does not lex is left out, the command is tmux
\* new-session -A -s name and the attach/create command is still issued;
\* one that lexes has its tokens appended in order after the name.
C16_BuildNeverFails ==
    /\ (pc = "done" /\ C1_Expected = "attach"
            /\ \A k \in 1..Len(spawned) : spawned[k].op # "attach")
          => Unwrap(result).err \in
                 QueryErrors \cup {"ssh not found in PATH", "failed to read selection",
                                   "invalid selection"}
    /\ \A k \in 1..Len(spawned) :
          spawned[k].op = "attach" =>
              C16_Command(spawned[k].argv) =
                  <<TmuxBin, NewSession, OptA, OptS, spawned[k].name>> \o C16_Lexed(tmux_args)

\* C17: an ssh process that cannot be spawned is a fatal error, for a
\* capturing and for an interactive execution alike: the invocation ends in
\* an error with that process its last, and a discovery query that failed
\* to spawn is not taken for an empty session list (no no-sessions notice).
C17_SpawnFailureIsFatal ==
    \A k \in 1..Len(spawned) :
        ~spawned[k].outcome.spawn =>
            /\ k = Len(spawned)
            /\ pc = "done" /\ ~Unwrap(result).ok
            /\ spawned[k].op = "list" =>
                  /\ ~HasNote("No tmux sessions found remotely.")
                  /\ ~HasNote("No tmux sessions found remotely to kill.")
                  /\ ~HasNote("No tmux sessions found remotely; will create/attach to")

\* C18: when the remote process of an attach/create or kill command exits
\* with 127 the installation hint is emitted and the tool itself exits
\* with 127; when the selected mode succeeds the tool exits with 0.
C18_Exit127Propagates ==
    pc = "done" =>
        /\ (Len(spawned) > 0 /\ Last(spawned).op \in {"attach", "kill"}
                /\ Last(spawned).outcome.spawn /\ Last(spawned).outcome.code = 127)
              => /\ \E h \in InstallHints : HasNote(h)
                 /\ exit_code(Unwrap(result)) = 127
        /\ Unwrap(result).ok => exit_code(Unwrap(result)) = 0

\* A token that is no NAME: it starts with a dash or holds an @ or a colon
C19_NoName(tok) ==
    \/ Len(tok) > 0 /\ tok[1] = "-"
    \/ \E k \in 1..Len(tok) : tok[k] = "@" \/ tok[k] = ":"

\* C19: when the hoister removes an attach, select or kill flag and the token
\* that follows it starts with a dash or holds an @ or a colon, or no token
\* follows, the mode is recorded as set without a name; the following
\* token is not consumed, it is examined by the scan in its turn: a
\* reserved flag is hoisted as well, any other token stays in the vector.
C19_NextTokenLeftToScan ==
    FirstHoistDone =>
        \A p \in 1..Len(raw.ssh_args) :
            LET v == raw.ssh_args IN
            (/\ v[p] \in {FlagAttach, FlagSelect, FlagKill}
             /\ ~Survives(p)
             /\ p = Len(v) \/ C19_NoName(v[p + 1]))
            => /\ v[p] = FlagKill => kill = Some(None)
               /\ v[p] \in {FlagAttach, FlagSelect} => attach = Some(None)
               /\ p < Len(v) =>
                     IF v[p + 1] \in ReservedFlags THEN ~Survives(p + 1) ELSE Survives(p + 1)

\* The positions of the attach/create and kill commands among the spawned
\* processes
Commands == {k \in 1..Len(spawned) : spawned[k].op \in {"attach", "kill"}}

\* What the invocation makes of the process spawned k-th
C20_ResultOf(k) ==
    CASE spawned[k].op = "list" -> list_result(spawned[k].outcome)
      [] spawned[k].op = "kill" -> kill_result(spawned[k].outcome)
      [] OTHER -> attach_result(spawned[k].outcome)

\* C20: the remote operations of an invocation are sequential and never
\* retried: at most one discovery query and at most one attach/create or
\* kill command; the query has ended before the line is read and the line
\* is read before the command is spawned; and a process or a read that ends
\* in a fatal error is followed by no further process.
C20_SequentialNoRetry ==
    /\ Cardinality(Queries) <= 1
    /\ Cardinality(Commands) <= 1
    /\ Len(reads) <= 1
    /\ \A q \in Queries : \A c \in Commands : q < c
    /\ \A r \in 1..Len(reads) :
          /\ Queries # {}
          /\ \A q \in Queries : q <= reads[r].after
          /\ \A c \in Commands : reads[r].after < c
          /\ ~prompt_user_to_select_session(sessions,
                  [ok |-> reads[r].ok, line |-> reads[r].line]).ok
                => Len(spawned) = reads[r].after /\ pc = "done" /\ ~Unwrap(result).ok
    /\ \A k \in 1..Len(spawned) :
          ~C20_ResultOf(k).ok =>
              k = Len(spawned) /\ pc = "done" /\ Unwrap(result) = C20_ResultOf(k)

\* A query, a line read, then the kill command
C20_Witness ==
    /\ pc = "done"
    /\ Len(spawned) = 2 /\ spawned[1].op = "list" /\ spawned[2].op = "kill"
    /\ Len(reads) = 1 /\ reads[1].after = 1
    /\ ~Unwrap(result).ok

\* C21: the session named by every kill-session and every new-session
\* command, be it a hoisted or parsed explicit name, the default name or a
\* name selected among the discovered ones, is a non-empty string that
\* holds no newline.
C21_SessionIdentifier ==
    \A k \in 1..Len(spawned) :
        spawned[k].op \in {"kill", "attach"} =>
            /\ Len(spawned[k].name) > 0
            /\ \A j \in 1..Len(spawned[k].name) : spawned[k].name[j] # "\n"

\* C22: the scan of the hoister terminates: an iteration reads the token at
\* an index below the length, and either removes one or two tokens at that
\* index, both within the vector, and keeps the index, or leaves the vector
\* and advances the index by one; so the length minus the index decreases
\* with every iteration and never falls below zero.
C22_ScanDecreases ==
    [][(pc = "scan" /\ pc' = "scan") =>
          /\ i < Len(ssh_args)
          /\ \/ i' = i + 1 /\ ssh_args' = ssh_args
             \/ /\ i' = i
                /\ \E r \in {1, 2} :
                      /\ i + r <= Len(ssh_args)
                      /\ ssh_args' = SubSeq(ssh_args, 1, i)
                                        \o SubSeq(ssh_args, i + r + 1, Len(ssh_args))
          /\ Len(ssh_args') - i' < Len(ssh_args) - i
          /\ 0 <= Len(ssh_args') - i']_vars

\* A flag and its name were removed in one iteration, the destination was
\* stepped over, and the loop has ended
C22_Witness ==
    /\ pc = "hoisted" /\ run = 1
    /\ raw.ssh_args = <<FlagKill, NameWork, Destination>>
    /\ kill = Some(Some(NameWork))
    /\ i = 1
    /\ ssh_args = <<TtyFlag, Destination>>

\* The raw token at p was removed as the NAME of the flag before it
C23_RemovedAsName(p) ==
    LET v == raw.ssh_args IN
    /\ p > 1
    /\ ~Survives(p - 1)
    /\ \/ v[p - 1] \in {FlagAttach, FlagSelect} /\ attach = Some(Some(v[p]))
       \/ v[p - 1] = FlagKill /\ kill = Some(Some(v[p]))

\* C23: the hoister removes tokens and neither reorders nor rewrites any:
\* apart from a -t inserted in front, the cleaned vector is the input
\* without some of its tokens, in the input's order; a removed token is a
\* reserved flag or the one token right after a removed attach, select or
\* kill flag, recorded as that flag's name; every other token survives.
C23_OnlyRemoves ==
    FirstHoistDone =>
        /\ Len(origin) = Len(ssh_args)
        /\ \A k \in 1..Len(origin) :
              IF origin[k] = 0
              THEN /\ k = 1 /\ ssh_args[k] = <<"-", "t">>
                   /\ \A q \in 1..Len(raw.ssh_args) : ~IsTty(raw.ssh_args[q]) \/ ~Survives(q)
              ELSE /\ origin[k] \in 1..Len(raw.ssh_args)
                   /\ ssh_args[k] = raw.ssh_args[origin[k]]
        /\ \A k \in 1..(Len(origin) - 1) : origin[k] < origin[k + 1]
        /\ \A p \in 1..Len(raw.ssh_args) :
              ~Survives(p) => (raw.ssh_args[p] \in ReservedFlags \/ C23_RemovedAsName(p))

\* A flag after the destination and its name were removed, -t was inserted
C23_Witness ==
    /\ pc = "hoisted" /\ run = 1
    /\ raw.ssh_args = <<Destination, FlagAttach, NameWork>>
    /\ attach = Some(Some(NameWork))
    /\ ssh_args = <<TtyFlag, Destination>>
    /\ origin = <<0, 1>>

====
